---- MODULE Spec2Model ----
(***************************************************************************)
(* Drive-by-wire node (dbw_node.py) and the Controller it drives.          *)
(*                                                                         *)
(* The node is a loop thread plus three subscriber callbacks that rospy    *)
(* runs on their own threads; every attribute read and write of the loop   *)
(* and of twist_cb is a step of its own, so that the callbacks interleave  *)
(* with the loop as the interpreter allows.                                *)
(*                                                                         *)
(* Real numbers are exact rationals <<n, d>> with d > 0 in lowest terms.   *)
(***************************************************************************)
EXTENDS Integers, Sequences, FiniteSets, TLC

(* ------------------------------ bounds -------------------------------- *)
\* the largest speed and yaw rate given to the controller
MaxVel == 1
\* number of messages delivered to the node in one behaviour
MaxMsgs == 3
\* number of loop iterations in one behaviour
MaxTicks == 2
\* number of direct control() calls in one behaviour of the controller harness
MaxCalls == 3
\* the largest error given to PIDController.step() directly
MaxErr == 3

(* --------------------------- rational numbers -------------------------- *)
Abs(x) == IF x < 0 THEN -x ELSE x

RECURSIVE GCD(_, _)
GCD(a, b) == IF b = 0 THEN a ELSE GCD(b, a % b)

\* the rational n/d in lowest terms with a positive denominator
R(n, d) ==
    LET s == IF d < 0 THEN -1 ELSE 1
        g == GCD(Abs(n), Abs(d))
    IN  <<(s * n) \div g, (s * d) \div g>>

Zero == <<0, 1>>
RInt(k) == <<k, 1>>
RNeg(a) == <<-a[1], a[2]>>
RAdd(a, b) == R(a[1] * b[2] + b[1] * a[2], a[2] * b[2])
RSub(a, b) == RAdd(a, RNeg(b))
\* cross-cancelled so that no intermediate product is larger than the result
RMul(a, b) ==
    LET g1 == GCD(Abs(a[1]), b[2])
        g2 == GCD(Abs(b[1]), a[2])
    IN  IF a[1] = 0 \/ b[1] = 0 THEN Zero
        ELSE <<(a[1] \div g1) * (b[1] \div g2), (a[2] \div g2) * (b[2] \div g1)>>
RDiv(a, b) == RMul(a, R(b[2], b[1]))
RLt(a, b) == a[1] * b[2] < b[1] * a[2]
RLe(a, b) == a[1] * b[2] <= b[1] * a[2]
RMax(a, b) == IF RLt(a, b) THEN b ELSE a
RMin(a, b) == IF RLt(b, a) THEN b ELSE a
RAbs(a) == <<Abs(a[1]), a[2]>>
RClamp(x, lo, hi) == RMax(lo, RMin(x, hi))

\* Python's None
None == <<>>

(* ------------------- vehicle parameters (DBWNode.__init__) ------------- *)
vehicle_mass == R(173635, 100)
fuel_capacity == R(27, 2)
brake_deadband == R(1, 10)
decel_limit == RInt(-5)
accel_limit == RInt(1)
wheel_radius == R(2413, 10000)
wheel_base == R(14249, 5000)
steer_ratio == R(74, 5)
max_lat_accel == RInt(3)
max_steer_angle == RInt(8)
TWIST_CONTROLLER_UPDATE_FREQUENCY == 10

(* ------------------ controller configuration (fixed) ------------------- *)
\* elapsed time between two steps: one period of the loop
sample_time == R(1, TWIST_CONTROLLER_UPDATE_FREQUENCY)
\* low-pass cutoff time constant
tau == R(1, 10)
\* blend factor of the low-pass filter: dt / (tau + dt)
alpha == RDiv(sample_time, RAdd(tau, sample_time))
Kp == RInt(2)
Ki == RInt(1)
Kd == R(1, 10)
min_output == decel_limit
max_output == accel_limit
FUEL_DENSITY == R(1429, 500)
\* floor on the speed used as a divisor by the yaw controller
MinSpeed == R(1, 10)

(* ------------------------------ truth values --------------------------- *)
\* a Python bool / a std_msgs Bool message object carrying the field data
PyBool(b) == [kind |-> "bool", data |-> b]
BoolMsg(b) == [kind |-> "msg", data |-> b]

\* Truth value of an object, as `if x:` and `not x` take it: a bool is its
\* own value; a message object defines neither __nonzero__ nor __len__, so
\* it is true whatever its data field holds.
Truthy(v) == IF v.kind = "bool" THEN v.data ELSE TRUE

(* ------------------------------ LowPassFilter -------------------------- *)
\* the new last_value, which filter() also returns
LowPassFilter_filter(last_value, sample) ==
    IF last_value = None THEN sample
    ELSE RAdd(RMul(alpha, sample), RMul(RSub(RInt(1), alpha), last_value))

(* ------------------------------ PIDController -------------------------- *)
PID_step_no_windup_clamp(i_term, previous_error, error, dt) ==
    LET p == RMul(Kp, error)
        i == RAdd(i_term, RMul(RMul(Ki, error), dt))
        d == RDiv(RMul(Kd, RSub(error, previous_error)), dt)
    IN  [i_term |-> i, previous_error |-> error, p |-> p, d |-> d,
         output |-> RClamp(RAdd(RAdd(p, i), d), min_output, max_output)]
PID_step(i_term, previous_error, error, dt) ==
    LET p == RMul(Kp, error)
        i == RClamp(RAdd(i_term, RMul(RMul(Ki, error), dt)), min_output, max_output)
        d == RDiv(RMul(Kd, RSub(error, previous_error)), dt)
    IN  [i_term |-> i, previous_error |-> error, p |-> p, d |-> d,
         output |-> RClamp(RAdd(RAdd(p, i), d), min_output, max_output)]

PID_reset_keeps_error(pid) == [pid EXCEPT !.i_term = Zero]
PID_reset(pid) == [pid EXCEPT !.i_term = Zero, !.previous_error = Zero]

(* ------------------------------ YawController -------------------------- *)
get_steering(target_linear, target_angular, current_linear) ==
    LET ang1 == IF target_linear # Zero
                THEN RMul(target_angular, RDiv(current_linear, target_linear))
                ELSE target_angular
        speed == RMax(current_linear, MinSpeed)
        max_yaw_rate == RDiv(max_lat_accel, speed)
        ang2 == RClamp(ang1, RNeg(max_yaw_rate), max_yaw_rate)
        wheel_angle == RDiv(RMul(wheel_base, ang2), speed)
    IN  RMul(wheel_angle, steer_ratio)

(* ------------------------------ Controller ----------------------------- *)
\* A brake torque is kept as the pair <<force, arm>> standing for their
\* product; a zero torque is <<Zero, Zero>>.
Torque(force, arm) ==
    IF force = Zero \/ arm = Zero THEN <<Zero, Zero>> ELSE <<force, arm>>
NoTorque == Torque(Zero, Zero)
TorquePositive(t) ==
    \/ RLt(Zero, t[1]) /\ RLt(Zero, t[2])
    \/ RLt(t[1], Zero) /\ RLt(t[2], Zero)
TorqueNonNeg(t) == t = NoTorque \/ TorquePositive(t)

ThrottleBrake_signed(acc) ==
    IF RLt(Zero, acc)
    THEN [throttle |-> RDiv(RMin(acc, accel_limit), accel_limit), brake |-> NoTorque]
    ELSE [throttle |-> Zero,
          brake |-> IF RLt(RAbs(acc), brake_deadband) THEN NoTorque
                    ELSE Torque(RMul(acc,
                                     RAdd(vehicle_mass,
                                          RMul(fuel_capacity, FUEL_DENSITY))),
                                wheel_radius)]
\* step 5: the acceleration command as throttle fraction or brake torque
ThrottleBrake(acc) ==
    IF RLt(Zero, acc)
    THEN [throttle |-> RDiv(RMin(acc, accel_limit), accel_limit), brake |-> NoTorque]
    ELSE [throttle |-> Zero,
          brake |-> IF RLt(RAbs(acc), brake_deadband) THEN NoTorque
                    ELSE Torque(RMul(RAbs(acc),
                                     RAdd(vehicle_mass,
                                          RMul(fuel_capacity, FUEL_DENSITY))),
                                wheel_radius)]

\* the controller's state at construction
ControllerInit ==
    [last_value |-> None, i_term |-> Zero, previous_error |-> Zero,
     prev_enabled |-> FALSE]

\* control(current_velocity, dbw_enabled, linear setpoint, angular setpoint):
\* the state after the call, the triple returned, and the terms of the
\* acceleration command it was computed from
control(st, current_velocity, enabled, linear_sp, angular_sp) ==
    LET filtered == LowPassFilter_filter(st.last_value, current_velocity)
        steer == get_steering(linear_sp, angular_sp, filtered)
        error == RSub(linear_sp, filtered)
        pid == PID_step(st.i_term, st.previous_error, error, sample_time)
        kept == IF ~Truthy(enabled) THEN PID_reset(pid) ELSE pid
        tb == ThrottleBrake(pid.output)
    IN  [state |-> [last_value |-> filtered, i_term |-> kept.i_term,
                    previous_error |-> kept.previous_error,
                    prev_enabled |-> Truthy(enabled)],
         throttle |-> tb.throttle, brake |-> tb.brake, steer |-> steer,
         error |-> error, acc |-> pid.output, p |-> pid.p,
         i |-> pid.i_term, d |-> pid.d]


(* ================================ state =============================== *)
VARIABLES
    \* DBWNode fields
    current_vel, linear_vel, angular_vel, dbw_enabled,
    throttle, brake, steering,
    \* the Controller object's state
    ctl,
    \* loop thread: position, the tuple of line 80, the arguments of lines 85-88
    pc, chk, args,
    \* twist_cb thread: the message whose line 102 is still to run, or None
    tw,
    \* rospy.is_shutdown()
    shutdown,
    \* commands handed to the three publishers during the current tick
    pubs,
    \* the latest control() call: its arguments, results and history flags
    call,
    \* what the current tick has done so far; lag counts the twist messages
    \* by which angular_vel is behind (+) or ahead of (-) the linear_vel that
    \* line 87 read
    tick,
    \* what the messages delivered so far carried
    env

vars == <<current_vel, linear_vel, angular_vel, dbw_enabled, throttle, brake,
          steering, ctl, pc, chk, args, tw, shutdown, pubs, call, tick, env>>

nodeFields == <<current_vel, linear_vel, angular_vel, dbw_enabled>>
outFields == <<throttle, brake, steering>>
loopVars == <<pc, chk, args, tick>>

\* speeds and yaw rates given to control() directly
Vels == {RInt(v) : v \in 0..MaxVel}
\* speeds and yaw rates carried by messages: zero and the largest one
MsgVels == {Zero, RInt(MaxVel)}
TwistMsgs == [linear : MsgVels, angular : MsgVels]

NoCall ==
    [n |-> 0, enabled |-> PyBool(TRUE), after_disabled |-> FALSE,
     all_disabled |-> TRUE, prev_error |-> Zero, throttle |-> Zero, brake |-> NoTorque, steer |-> Zero,
     error |-> Zero, acc |-> Zero, p |-> Zero, i |-> Zero, d |-> Zero]

\* the record of a control() call that returned r
CallRecord(prev, enabled, r) ==
    [n |-> prev.n + 1, enabled |-> enabled,
     after_disabled |-> prev.n > 0 /\ ~Truthy(prev.enabled),
     all_disabled |-> prev.all_disabled /\ ~Truthy(enabled),
     prev_error |-> prev.error,
     throttle |-> r.throttle, brake |-> r.brake, steer |-> r.steer,
     error |-> r.error, acc |-> r.acc, p |-> r.p, i |-> r.i, d |-> r.d]

NewTick ==
    [ready |-> FALSE, called |-> 0, ret |-> None, changed |-> FALSE, gated |-> FALSE,
     cvRead |-> None, enRead |-> TRUE, linRead |-> None, angRead |-> None,
     lag |-> 0, gateEn |-> TRUE]

(* ================================= Init =============================== *)
\* line 72: the enable flag before any enable message
InitialEnable_false == PyBool(FALSE)
InitialEnable == PyBool(TRUE)

\* lines 68-73, and a freshly constructed Controller
Init ==
    /\ current_vel = None
    /\ linear_vel = None
    /\ angular_vel = None
    /\ dbw_enabled = InitialEnable
    /\ throttle = Zero
    /\ steering = Zero
    /\ brake = NoTorque
    /\ ctl = ControllerInit
    /\ pc = "head"
    /\ chk = <<>>
    /\ args = <<>>
    /\ tw = None
    /\ shutdown = FALSE
    /\ pubs = <<>>
    /\ call = NoCall
    /\ tick = NewTick
    /\ env = [msgs |-> 0, ticks |-> 0, lastEn |-> TRUE, lastVel |-> None,
              lastLin |-> None, lastAng |-> None]

(* ============================== callbacks ============================= *)
\* loop() is the last statement of __init__, and DBWNode() the last of the
\* script: when the loop returns the process ends, callback threads included
Running == pc # "done"

\* line 97: what dbw_enabled_cb stores for a message
dbw_enabled_cb_store(msg) == msg

dbw_enabled_cb(b) ==
    /\ Running
    /\ env.msgs < MaxMsgs
    /\ dbw_enabled' = dbw_enabled_cb_store(BoolMsg(b))
    /\ env' = [env EXCEPT !.msgs = @ + 1, !.lastEn = b]
    /\ UNCHANGED <<current_vel, linear_vel, angular_vel, outFields, ctl,
                   loopVars, tw, shutdown, pubs, call>>

velocity_cb_also_linear(v) ==
    /\ Running
    /\ env.msgs < MaxMsgs
    /\ current_vel' = v
    /\ linear_vel' = v
    /\ env' = [env EXCEPT !.msgs = @ + 1, !.lastVel = v]
    /\ UNCHANGED <<angular_vel, dbw_enabled, outFields, ctl,
                   loopVars, tw, shutdown, pubs, call>>

velocity_cb(v) ==
    /\ Running
    /\ env.msgs < MaxMsgs
    /\ current_vel' = v
    /\ env' = [env EXCEPT !.msgs = @ + 1, !.lastVel = v]
    /\ UNCHANGED <<linear_vel, angular_vel, dbw_enabled, outFields, ctl,
                   loopVars, tw, shutdown, pubs, call>>

\* line 101
twist_cb_101(m) ==
    /\ Running
    /\ env.msgs < MaxMsgs
    /\ tw = None
    /\ linear_vel' = m.linear
    /\ tw' = <<m>>
    /\ env' = [env EXCEPT !.msgs = @ + 1, !.lastLin = m.linear]
    /\ UNCHANGED <<current_vel, angular_vel, dbw_enabled, outFields, ctl,
                   loopVars, shutdown, pubs, call>>

\* line 102
twist_cb_102 ==
    /\ Running
    /\ tw # None
    /\ angular_vel' = tw[1].angular
    /\ tw' = None
    /\ env' = [env EXCEPT !.lastAng = tw[1].angular]
    /\ tick' = IF pc = "l88_angular_vel" THEN [tick EXCEPT !.lag = @ - 1] ELSE tick
    /\ UNCHANGED <<current_vel, linear_vel, dbw_enabled, outFields, ctl,
                   pc, chk, args, shutdown, pubs, call>>

\* rospy signals shutdown
Shutdown ==
    /\ ~shutdown
    /\ shutdown' = TRUE
    /\ UNCHANGED <<nodeFields, outFields, ctl, loopVars, tw, pubs, call, env>>


(* ================================ the loop ============================ *)
\* line 80: not None in (current_vel, linear_vel, angular_vel)
InputsReady_first_two(t) == t[1] # None /\ t[2] # None
InputsReady_truthy(t) == \A k \in 1..Len(t) : t[k] # None /\ t[k] # Zero
InputsReady(t) == \A k \in 1..Len(t) : t[k] # None

\* lines 107-123: the commands handed to the publishers, in order
Cmd(topic, value) == [topic |-> topic, enable |-> TRUE, value |-> value]
publish_no_brake(t, b, s) == <<Cmd("throttle", t), Cmd("steering", s)>>
publish_swapped(t, b, s) ==
    <<Cmd("throttle", s), Cmd("steering", t), Cmd("brake", b)>>
publish(t, b, s) == <<Cmd("throttle", t), Cmd("steering", s), Cmd("brake", b)>>

\* line 79, shutdown seen: the loop ends
LoopExit ==
    /\ pc = "head"
    /\ shutdown
    /\ pc' = "done"
    /\ UNCHANGED <<nodeFields, outFields, ctl, chk, args, tick, tw, shutdown,
                   pubs, call, env>>

LoopHead_ignores_shutdown ==
    /\ pc = "head"
    /\ env.ticks < MaxTicks
    /\ pc' = "l80_current_vel"
    /\ chk' = <<>>
    /\ args' = <<>>
    /\ pubs' = <<>>
    /\ tick' = NewTick
    /\ env' = [env EXCEPT !.ticks = @ + 1]
    /\ UNCHANGED <<nodeFields, outFields, ctl, tw, shutdown, call>>
\* line 79, no shutdown: a new iteration begins
LoopHead ==
    /\ pc = "head"
    /\ ~shutdown
    /\ env.ticks < MaxTicks
    /\ pc' = "l80_current_vel"
    /\ chk' = <<>>
    /\ args' = <<>>
    /\ pubs' = <<>>
    /\ tick' = NewTick
    /\ env' = [env EXCEPT !.ticks = @ + 1]
    /\ UNCHANGED <<nodeFields, outFields, ctl, tw, shutdown, call>>

\* line 80, first element of the tuple
L80_current_vel ==
    /\ pc = "l80_current_vel"
    /\ chk' = <<current_vel>>
    /\ pc' = "l80_linear_vel"
    /\ UNCHANGED <<nodeFields, outFields, ctl, args, tick, tw, shutdown, pubs,
                   call, env>>

\* line 81
L81_linear_vel ==
    /\ pc = "l80_linear_vel"
    /\ chk' = Append(chk, linear_vel)
    /\ pc' = "l80_angular_vel"
    /\ UNCHANGED <<nodeFields, outFields, ctl, args, tick, tw, shutdown, pubs,
                   call, env>>

\* line 82 and the test of line 80
L82_angular_vel ==
    /\ pc = "l80_angular_vel"
    /\ LET t == Append(chk, angular_vel)
       IN  /\ tick' = [tick EXCEPT !.ready = InputsReady(t)]
           /\ pc' = IF InputsReady(t) THEN "l85_current_vel" ELSE "l89"
    /\ chk' = <<>>
    /\ UNCHANGED <<nodeFields, outFields, ctl, args, tw, shutdown, pubs, call, env>>

\* line 85: first argument
L85_current_vel ==
    /\ pc = "l85_current_vel"
    /\ args' = <<current_vel>>
    /\ tick' = [tick EXCEPT !.cvRead = env.lastVel]
    /\ pc' = "l86_dbw_enabled"
    /\ UNCHANGED <<nodeFields, outFields, ctl, chk, tw, shutdown, pubs, call, env>>

\* line 86: second argument
L86_dbw_enabled ==
    /\ pc = "l86_dbw_enabled"
    /\ args' = Append(args, dbw_enabled)
    /\ tick' = [tick EXCEPT !.enRead = env.lastEn]
    /\ pc' = "l87_linear_vel"
    /\ UNCHANGED <<nodeFields, outFields, ctl, chk, tw, shutdown, pubs, call, env>>

\* line 87: third argument
L87_linear_vel ==
    /\ pc = "l87_linear_vel"
    /\ args' = Append(args, linear_vel)
    /\ tick' = [tick EXCEPT !.linRead = env.lastLin,
                            !.lag = IF tw # None THEN 1 ELSE 0]
    /\ pc' = "l88_angular_vel"
    /\ UNCHANGED <<nodeFields, outFields, ctl, chk, tw, shutdown, pubs, call, env>>

\* line 88: fourth argument; the call of control(); the stores of lines 83-85
L88_control ==
    /\ pc = "l88_angular_vel"
    /\ LET a == Append(args, angular_vel)
           r == control(ctl, a[1], a[2], a[3], a[4])
       IN  /\ args' = a
           /\ ctl' = r.state
           /\ throttle' = r.throttle
           /\ brake' = r.brake
           /\ steering' = r.steer
           /\ call' = CallRecord(call, a[2], r)
           /\ tick' = [tick EXCEPT !.called = @ + 1,
                                   !.ret = <<r.throttle, r.brake, r.steer>>,
                                   !.changed = <<r.throttle, r.brake, r.steer>>
                                                  # <<throttle, brake, steering>>,
                                   !.angRead = env.lastAng]
    /\ pc' = "l89"
    /\ UNCHANGED <<nodeFields, chk, tw, shutdown, pubs, env>>

\* lines 89-93: the gate on self.dbw_enabled, and publish() behind it; the
\* argument values of the call are temporaries, gone by now
L89_gate ==
    /\ pc = "l89"
    /\ pubs' = IF Truthy(dbw_enabled)
               THEN pubs \o publish(throttle, brake, steering)
               ELSE pubs
    /\ args' = <<>>
    /\ tick' = [tick EXCEPT !.gated = TRUE, !.gateEn = env.lastEn,
                            !.cvRead = None, !.linRead = None, !.angRead = None]
    /\ pc' = "sleep"
    /\ UNCHANGED <<nodeFields, outFields, ctl, chk, tw, shutdown, call, env>>

\* line 94
Sleep ==
    /\ pc = "sleep"
    /\ pc' = "head"
    /\ UNCHANGED <<nodeFields, outFields, ctl, chk, args, tick, tw, shutdown,
                   pubs, call, env>>

Next ==
    \/ \E b \in BOOLEAN : dbw_enabled_cb(b)
    \/ \E v \in MsgVels : velocity_cb(v)
    \/ \E m \in TwistMsgs : twist_cb_101(m)
    \/ twist_cb_102
    \/ Shutdown
    \/ LoopExit
    \/ LoopHead
    \/ L80_current_vel
    \/ L81_linear_vel
    \/ L82_angular_vel
    \/ L85_current_vel
    \/ L86_dbw_enabled
    \/ L87_linear_vel
    \/ L88_control
    \/ L89_gate
    \/ Sleep

Spec == Init /\ [][Next]_vars

\* the loop thread is always scheduled again: whenever it has a next
\* statement it eventually executes it (the step of lines 83-88 is told by
\* the position it leaves and the one it reaches)
L88_taken == pc = "l88_angular_vel" /\ pc' = "l89"
LoopStep ==
    \/ LoopExit
    \/ LoopHead
    \/ L80_current_vel
    \/ L81_linear_vel
    \/ L82_angular_vel
    \/ L85_current_vel
    \/ L86_dbw_enabled
    \/ L87_linear_vel
    \/ L88_taken
    \/ L89_gate
    \/ Sleep

SpecFair == Spec /\ WF_pc(LoopStep)

(* ========================= controller harness ========================= *)
\* control() called directly, with any arguments, on a fresh Controller
ControlCall(cv, en, lin, ang) ==
    /\ call.n < MaxCalls
    /\ LET r == control(ctl, cv, PyBool(en), lin, ang)
       IN  /\ ctl' = r.state
           /\ call' = CallRecord(call, PyBool(en), r)
    /\ UNCHANGED <<nodeFields, outFields, loopVars, tw, shutdown, pubs, env>>

NextCtl ==
    \E cv \in Vels, en \in BOOLEAN, lin \in Vels, ang \in Vels :
        ControlCall(cv, en, lin, ang)

SpecCtl == Init /\ [][NextCtl]_vars

(* ============================= PID harness ============================ *)
\* step() and reset() called directly on a fresh PIDController
PidErrors == {RInt(e) : e \in -MaxErr..MaxErr}
SampleTimes == {sample_time, RInt(1)}

PIDStep(error, dt) ==
    /\ call.n < MaxCalls
    /\ LET r == PID_step(ctl.i_term, ctl.previous_error, error, dt)
       IN  /\ ctl' = [ctl EXCEPT !.i_term = r.i_term,
                                 !.previous_error = r.previous_error]
           /\ call' = [call EXCEPT !.n = @ + 1, !.error = error, !.p = r.p,
                                   !.i = r.i_term, !.d = r.d, !.acc = r.output]
    /\ UNCHANGED <<nodeFields, outFields, loopVars, tw, shutdown, pubs, env>>

PIDReset ==
    /\ ctl' = PID_reset(ctl)
    /\ UNCHANGED <<nodeFields, outFields, loopVars, tw, shutdown, pubs, env, call>>

NextPID ==
    \/ \E e \in PidErrors, dt \in SampleTimes : PIDStep(e, dt)
    \/ PIDReset

SpecPID == Init /\ [][NextPID]_vars


(* =============================== claims =============================== *)
TickDone == pc = "sleep"
Published(topic) == SelectSeq(pubs, LAMBDA c : c.topic = topic)
CompleteCommand ==
    /\ Len(pubs) = 3
    /\ \A t \in {"throttle", "steering", "brake"} :
          /\ Len(Published(t)) = 1
          /\ Published(t)[1].enable
CommittedToControl ==
    pc \in {"l85_current_vel", "l86_dbw_enabled", "l87_linear_vel", "l88_angular_vel"}

\* C1: on a tick whose gate finds the most recently received enable flag
\* false, nothing is published.
C1_NoPublishWhileDisabled ==
    (TickDone /\ ~tick.gateEn) => pubs = <<>>

\* C2: the loop enters the control() branch, and control() is invoked, only
\* after a velocity message and a twist message (both of its fields) have
\* been delivered.
C2_ControlOnlyWhenInputsObserved ==
    (CommittedToControl \/ tick.called > 0) =>
        /\ env.lastVel # None
        /\ env.lastLin # None
        /\ env.lastAng # None
        /\ current_vel # None /\ linear_vel # None /\ angular_vel # None
C2_Witness == tick.called = 1 /\ call.n = 1

\* C3: a tick that finds the inputs ready invokes control() exactly once, and
\* each argument is what the latest message for that input carried when the
\* argument was read; the enable argument has the truth value of the latest
\* enable message.
C3_ArgsAreLatestValues ==
    /\ (pc \in {"l89", "sleep"} /\ tick.ready) => tick.called = 1
    /\ (pc = "l89" /\ tick.ready) =>
          /\ args[1] = tick.cvRead
          /\ Truthy(args[2]) = tick.enRead
          /\ args[3] = tick.linRead
          /\ args[4] = tick.angRead

\* C4: the linear and the angular setpoint of one control() call come from
\* the same twist message.
C4_SetpointsFromOneTwist ==
    tick.called = 1 => tick.lag = 0

\* C5: a tick that finds the inputs ready while the enable flag is false
\* still invokes control(), with a false dbw_enabled, and transmits nothing.
C5_ComputesSilentlyWhileDisabled ==
    (TickDone /\ tick.ready /\ ~tick.enRead /\ ~tick.gateEn) =>
        /\ tick.called = 1
        /\ ~Truthy(call.enabled)
        /\ pubs = <<>>

\* C6: a tick publishes all three commands or none, each once and with enable
\* set; and it publishes them whenever the gate finds the enable flag true,
\* whether or not the inputs were ready.
C6_CompleteCommandWhenEnabled ==
    TickDone =>
        /\ pubs = <<>> \/ CompleteCommand
        /\ tick.gateEn => CompleteCommand
C6_Witness == TickDone /\ tick.gateEn /\ ~tick.ready /\ CompleteCommand

\* C7: as long as every control() call so far had dbw_enabled false, the
\* throttle returned is 0 and the integrator is 0 after the call.
C7_DisabledThrottleAndIntegratorZero ==
    (call.n > 0 /\ call.all_disabled) =>
        /\ call.throttle = Zero
        /\ ctl.i_term = Zero

\* C8: on the first enabled control() call after a disabled one, with zero
\* velocity error, the acceleration command is the proportional term and the
\* integral and derivative contributions are zero.
C8_NoStaleIntegral ==
    (call.n > 0 /\ Truthy(call.enabled) /\ call.after_disabled
         /\ call.error = Zero) =>
        /\ call.acc = call.p
        /\ call.i = Zero
        /\ call.d = Zero
C8_Witness ==
    /\ call.n > 1 /\ Truthy(call.enabled) /\ call.after_disabled
    /\ call.error = Zero /\ call.prev_error # Zero

\* C9: every triple control() returns has throttle in [0, 1] and brake >= 0,
\* never both positive: a positive acceleration command gives brake 0, any
\* other gives throttle 0, and brake 0 inside the deadband.
C9_OutputRanges ==
    call.n > 0 =>
        /\ RLe(Zero, call.throttle) /\ RLe(call.throttle, RInt(1))
        /\ TorqueNonNeg(call.brake)
        /\ ~(RLt(Zero, call.throttle) /\ TorquePositive(call.brake))
        /\ RLt(Zero, call.acc) => call.brake = NoTorque
        /\ RLe(call.acc, Zero) =>
              /\ call.throttle = Zero
              /\ RLt(RAbs(call.acc), brake_deadband) => call.brake = NoTorque
C9_Witness == call.n > 1 /\ TorquePositive(call.brake)

\* C10: when a tick invoked control() and published, the three published
\* values are the triple that call returned.
C10_PublishedIsThisTicksTriple ==
    (TickDone /\ tick.called = 1 /\ pubs # <<>>) =>
        /\ Published("throttle")[1].value = tick.ret[1]
        /\ Published("brake")[1].value = tick.ret[2]
        /\ Published("steering")[1].value = tick.ret[3]
C10_Witness ==
    /\ TickDone /\ tick.called = 1 /\ CompleteCommand
    /\ call.n = 2 /\ tick.changed

\* C11: when a tick invoked control() and published, the enable flag that
\* call received was true.
C11_PublishedUnderAuthority ==
    (TickDone /\ tick.called = 1 /\ pubs # <<>>) => call.enabled.data

\* C12: as long as control() has never been invoked, whatever a tick
\* publishes is the neutral triple (0, 0, 0), and a tick publishes it whenever
\* no enable message has yet said false.
NeutralCommand ==
    /\ CompleteCommand
    /\ Published("throttle")[1].value = Zero
    /\ Published("brake")[1].value = NoTorque
    /\ Published("steering")[1].value = Zero
C12_NeutralBeforeFirstControl ==
    (TickDone /\ call.n = 0) =>
        /\ pubs = <<>> \/ NeutralCommand
        /\ tick.gateEn => NeutralCommand
C12_Witness ==
    /\ TickDone /\ call.n = 0 /\ env.ticks = 2 /\ NeutralCommand
    /\ current_vel # None /\ current_vel # Zero

\* C13: unless shutdown is signalled, once a velocity message and a twist
\* message have been delivered and an iteration is still to begin, control()
\* is eventually invoked; a tick that follows a control() call invokes
\* control() too; and no input field goes back to None.
InputsDelivered ==
    env.lastVel # None /\ env.lastLin # None /\ env.lastAng # None
InOutputRange(x) == RLe(min_output, x) /\ RLe(x, max_output)
C14_IntegratorAndOutputBounded ==
    /\ InOutputRange(ctl.i_term)
    /\ call.n > 0 => InOutputRange(call.i) /\ InOutputRange(call.acc)
C14_Witness ==
    /\ call.n = 1 /\ call.error = RInt(MaxErr)
    /\ ctl.i_term = max_output /\ call.acc = max_output

\* C15: a callback step changes only its own field(s): velocity_cb only
\* current_vel, twist_cb only linear_vel and angular_vel, dbw_enabled_cb only
\* dbw_enabled; no callback step changes the stored outputs, calls control()
\* or publishes, and no other step changes the input fields.
CallbackStep == env'.msgs # env.msgs \/ tw' # tw
C15_CallbacksChangeOnlyTheirField ==
    [][/\ CallbackStep =>
            /\ UNCHANGED <<outFields, ctl, call, pubs, pc>>
            /\ tw' # tw => UNCHANGED <<current_vel, dbw_enabled>>
            /\ tw' = tw => UNCHANGED <<linear_vel, angular_vel>>
            /\ current_vel' # current_vel => UNCHANGED dbw_enabled
            /\ dbw_enabled' # dbw_enabled => UNCHANGED current_vel
       /\ nodeFields' # nodeFields => CallbackStep]_vars
C15_Witness ==
    /\ env.msgs = MaxMsgs /\ tw # None /\ call.n = 0
    /\ current_vel # None /\ linear_vel # None /\ angular_vel = None
    /\ dbw_enabled # InitialEnable
    /\ throttle = Zero /\ brake = NoTorque /\ steering = Zero

\* C16: once shutdown is signalled the loop thread reaches the loop head and
\* exits there; after the signal no new tick begins, so only the tick in
\* progress can still call control() (once) or publish (once), and after the
\* exit nothing is called or published.
C16_LoopTerminatesOnShutdown ==
    /\ shutdown ~> (pc = "done")
    /\ [][shutdown => /\ env'.ticks = env.ticks
                      /\ pc = "head" => pc' \in {"head", "done"}
                      /\ call'.n # call.n => tick.called = 0 /\ call'.n = call.n + 1
                      /\ pubs' # pubs => pubs = <<>>]_vars
    /\ [][pc = "done" => pc' = "done" /\ UNCHANGED <<call, pubs, ctl, outFields>>]_vars
    /\ [](pc = "done" => shutdown)
C16_Witness ==
    /\ pc = "done" /\ shutdown /\ env.ticks < MaxTicks
    /\ tick.called = 1 /\ call.n = 1 /\ CompleteCommand


====
